---- MODULE Spec2Model ----
(***************************************************************************)
(* Model of nbhd.communities.get_communities: the community-detection      *)
(* pipeline (classification of streets, node snapping, graph building,     *)
(* connected-component labelling, aggregation of sizes), of its variant    *)
(* nbhd.geography.get_communities, and of nbhd.geography.FaceBlock.        *)
(*                                                                         *)
(* Tables (pandas frames) are sequences of records, one record per row.    *)
(* A nullable cell is a sequence: << >> is NaN / None, <<v>> holds v.      *)
(* A community label is the string str(i + 1).zfill(3), kept as the        *)
(* sequence of its decimal digits; None is the empty sequence.             *)
(***************************************************************************)
EXTENDS Integers, Sequences, FiniteSets, TLC

VARIABLES pc, snap_nodes_threshold, db_roads, db_properties, all_streets,
          residential_streets, properties, streets,
          nearest_nodes_df, translator, communities_key, community_size_dict

\* the arguments, locals and results of geography.get_communities and the
\* argument and the attributes of a geography.FaceBlock
VARIABLES node_distance, min_community_size, merged_df, geo_subgraphs, sgs,
          total_df, face_block

geoVars == <<node_distance, min_community_size, merged_df, geo_subgraphs, sgs,
             total_df, face_block>>

\* the nodes table read by get_nearest_nodes_translator, kept when the
\* function is run on its own
VARIABLES db_nodes

vars == <<pc, snap_nodes_threshold, db_roads, db_properties, all_streets,
          residential_streets, properties, streets,
          nearest_nodes_df, translator, communities_key, community_size_dict,
          geoVars, db_nodes>>

(***************************************************************************)
(* Bounds of the model.                                                    *)
(***************************************************************************)
MaxRoad == 2
MaxProp == 2
MaxNode == 3
MaxPos == 2
MaxThreshold == 2

RoadIds == 1..MaxRoad
NodeIds == 1..MaxNode
Positions == 0..MaxPos
\* a negative threshold, 0, and the positive ones
Thresholds == (-1)..MaxThreshold
\* a street shorter than short_threshold, and one that is residential only
\* with two or more properties
Lengths == {5, 40}

(***************************************************************************)
(* Program constants.                                                      *)
(***************************************************************************)
residential_street_threshold == 30
short_threshold == 10
KnnK == 5
LabelWidth == 3

NaN == << >>
None == << >>

(***************************************************************************)
(* Generic helpers.                                                        *)
(***************************************************************************)
Range(s) == {s[i] : i \in DOMAIN s}

MinOf(S) == CHOOSE x \in S : \A y \in S : x <= y

MaxOf(S) == CHOOSE x \in S : \A y \in S : x >= y

Abs(x) == IF x < 0 THEN -x ELSE x

\* dict(series.value_counts()): the number of rows holding each value
ValueCounts(column) ==
    [v \in Range(column) |-> Cardinality({i \in DOMAIN column : column[i] = v})]

\* dict.get(key, default)
DictGet(d, key, default) == IF key \in DOMAIN d THEN d[key] ELSE default

(***************************************************************************)
(* str(n).zfill(width), as a sequence of decimal digits.                   *)
(***************************************************************************)
RECURSIVE Str(_)
Str(n) == IF n < 10 THEN <<n>> ELSE Str(n \div 10) \o <<n % 10>>

RECURSIVE ZFill(_, _)
ZFill(s, width) == IF Len(s) >= width THEN s ELSE ZFill(<<0>> \o s, width)

(***************************************************************************)
(* Feature provider: db.intersects("roads", polygon) returns the roads of  *)
(* the polygon; db.knn("properties", "roads", ...) returns one row per     *)
(* property with its nearest road; db.knn("properties", "buildings")       *)
(* returns the distance of each property to its nearest building           *)
(* (in_building is dist == 0).                                             *)
(***************************************************************************)
RoadTables == [RoadIds -> [startNode : NodeIds, endNode : NodeIds, length : Lengths]]

\* distance from a property to its nearest building: 0 is inside it
BuildingDists == {0, 3}

PropertyTablesOf(ids) ==
    UNION {[1..k -> [roads_id : ids, dist : BuildingDists]] : k \in 0..MaxProp}

PropertyTables == PropertyTablesOf(RoadIds)

\* geography.get_communities not called, no FaceBlock constructed
GeoIdle ==
    /\ node_distance = 0
    /\ min_community_size = 0
    /\ merged_df = << >>
    /\ geo_subgraphs = << >>
    /\ sgs = << >>
    /\ total_df = << >>
    /\ face_block = None

Init ==
    /\ GeoIdle
    /\ db_nodes = << >>
    /\ pc = "start"
    /\ snap_nodes_threshold \in Thresholds
    /\ db_roads \in RoadTables
    /\ db_properties = << >>
    /\ all_streets = << >>
    /\ residential_streets = << >>
    /\ properties = << >>
    /\ streets = << >>
    /\ nearest_nodes_df = {}
    /\ translator = << >>
    /\ communities_key = << >>
    /\ community_size_dict = << >>

(***************************************************************************)
(* get_communities, line 47: all the roads in the polygon, one row per     *)
(* road, in the order of the road ids.  (These rows never qualify for the  *)
(* street graph, see OrNa, so their order decides nothing downstream; the  *)
(* order of the qualifying rows is that of the property table.)            *)
(***************************************************************************)
Intersects(roads) ==
    [i \in DOMAIN roads |->
        [roads_id |-> i, startNode |-> roads[i].startNode,
         endNode |-> roads[i].endNode, length |-> roads[i].length]]

GetAllStreets ==
    /\ pc = "start"
    /\ all_streets' = Intersects(db_roads)
    /\ pc' = "classify"
    /\ UNCHANGED <<db_nodes, geoVars, snap_nodes_threshold, db_roads, db_properties, residential_streets, properties,
                   streets, nearest_nodes_df, translator, communities_key,
                   community_size_dict>>

(***************************************************************************)
(* get_residential_streets_and_properties, lines 91-133.                   *)
(***************************************************************************)
\* get_properties_on_streets: one row per property, with its nearest road
GetPropertiesOnStreets(roads, knn) ==
    [i \in DOMAIN knn |->
        [properties_id |-> i, roads_id |-> knn[i].roads_id,
         startNode |-> roads[knn[i].roads_id].startNode,
         endNode |-> roads[knn[i].roads_id].endNode,
         length |-> roads[knn[i].roads_id].length]]

\* every property taken as lying in a building
GetPropertiesInBuildingsAll(knn) == DOMAIN knn

\* get_properties_in_buildings: ids of the properties at distance 0 of a building
GetPropertiesInBuildings(knn) == {i \in DOMAIN knn : knn[i].dist = 0}

\* mark_residential_buildings: every building is residential for the moment
MarkResidentialBuildings(properties_in_buildings) ==
    [i \in properties_in_buildings |-> TRUE]

\* mark_residential_properties: in a building that is marked residential
MarkResidentialProperties(df, knn) ==
    LET in_buildings == GetPropertiesInBuildings(knn)
        residential_building == MarkResidentialBuildings(in_buildings)
    IN  [i \in DOMAIN df |->
            df[i].properties_id \in {p \in in_buildings : residential_building[p]}]

\* ~df.roads_geometry.duplicated(): the first row of each road geometry
\* (the geometry of a road is identified by the road)
NotDuplicated(df, i) == \A j \in 1..(i - 1) : df[j].roads_id # df[i].roads_id

\* streets.geometry.length / number_of_properties < threshold, in floats:
\* a zero count gives inf (or nan), which is below no threshold
LengthPerPropertyBelow(length, number_of_properties, threshold) ==
    /\ number_of_properties > 0
    /\ length < threshold * number_of_properties

ResidentialStreetRow(row, property_counts_dict) ==
    LET n == DictGet(property_counts_dict, row.roads_id, 0)
    IN  [roads_id |-> row.roads_id, startNode |-> row.startNode,
         endNode |-> row.endNode, length |-> row.length,
         number_of_properties |-> <<n>>,
         residential |->
            <<LengthPerPropertyBelow(row.length, n, residential_street_threshold)>>]

GetResidentialStreetsAndProperties ==
    /\ pc = "classify"
    /\ \E knn \in PropertyTablesOf(DOMAIN db_roads) :
        LET on_streets == GetPropertiesOnStreets(db_roads, knn)
            residential == MarkResidentialProperties(on_streets, knn)
            residential_properties_df ==
                SelectSeq(on_streets, LAMBDA r : residential[r.properties_id])
            property_counts_dict ==
                ValueCounts([i \in DOMAIN residential_properties_df |->
                                residential_properties_df[i].roads_id])
            firsts == SelectSeq(on_streets,
                                LAMBDA r : NotDuplicated(on_streets, r.properties_id))
        IN  /\ residential_streets' =
                [i \in DOMAIN firsts |->
                    ResidentialStreetRow(firsts[i], property_counts_dict)]
            /\ properties' = residential_properties_df
            /\ db_properties' = knn
    /\ pc' = "concat"
    /\ UNCHANGED <<db_nodes, geoVars, snap_nodes_threshold, db_roads, all_streets, streets,
                   nearest_nodes_df, translator, communities_key,
                   community_size_dict>>

(***************************************************************************)
(* get_communities, lines 64-70: the two street tables are concatenated    *)
(* (outer join of the columns: a column missing from one table is NaN in   *)
(* its rows), then `short` and `short_or_residential` are added.           *)
(***************************************************************************)
\* pandas `left | right` on an object column holding NaN: the NaN rows come
\* out False, whatever the right operand
OrNa(left, right) == IF left = NaN THEN FALSE ELSE left[1] \/ right

\* the concatenation keeping the rows of the second table only
ConcatInner(first, second) == second

Concat(first, second) ==
    [i \in DOMAIN first |->
        [roads_id |-> first[i].roads_id, startNode |-> first[i].startNode,
         endNode |-> first[i].endNode, length |-> first[i].length,
         number_of_properties |-> NaN, residential |-> NaN]]
    \o second

IsShort(row) == row.length < short_threshold

FlagRow(row) ==
    [roads_id |-> row.roads_id, startNode |-> row.startNode,
     endNode |-> row.endNode, length |-> row.length,
     number_of_properties |-> row.number_of_properties,
     residential |-> row.residential,
     short |-> IsShort(row),
     short_or_residential |-> OrNa(row.residential, IsShort(row))]

ConcatStreets ==
    /\ pc = "concat"
    /\ streets' = [i \in DOMAIN Concat(all_streets, residential_streets) |->
                      FlagRow(Concat(all_streets, residential_streets)[i])]
    /\ pc' = "snap"
    /\ UNCHANGED <<db_nodes, geoVars, snap_nodes_threshold, db_roads, db_properties, all_streets, residential_streets,
                   properties, nearest_nodes_df, translator, communities_key,
                   community_size_dict>>

(***************************************************************************)
(* Connected components, as networkx computes them: a breadth-first search *)
(* from a node over the undirected adjacency given by a set of node pairs. *)
(***************************************************************************)
Neighbours(pairs, n) ==
    {e[2] : e \in {x \in pairs : x[1] = n}} \cup {e[1] : e \in {x \in pairs : x[2] = n}}

\* a search that stops at the neighbours of the start nodes
PlainBfsOneStep(pairs, seen, frontier) ==
    seen \cup UNION {Neighbours(pairs, n) : n \in frontier}

RECURSIVE PlainBfs(_, _, _)
PlainBfs(pairs, seen, frontier) ==
    IF frontier = {} THEN seen
    ELSE LET found == UNION {Neighbours(pairs, n) : n \in frontier} \ seen
         IN  PlainBfs(pairs, seen \cup found, found)

(***************************************************************************)
(* get_nearest_nodes_translator, lines 228-250, and the feature provider's *)
(* k-nearest-neighbour self-join of the nodes (data.Base.knn).             *)
(***************************************************************************)
NodeTables == [NodeIds -> Positions]

\* ST_Distance between two node points (nodes lie on a line)
STDistance(pos, a, b) == Abs(pos[a] - pos[b])

\* ORDER BY t1.geometry <-> t2.geometry LIMIT k, WHERE t1.id != t2.id: the k
\* nearest other nodes; which of several equidistant nodes make the cut is
\* left to the database
KnnChoices(pos, n, k) ==
    LET others == (DOMAIN pos) \ {n}
        size == IF Cardinality(others) < k THEN Cardinality(others) ELSE k
    IN  {S \in SUBSET others :
            /\ Cardinality(S) = size
            /\ \A a \in S, b \in others \ S :
                  STDistance(pos, n, a) <= STDistance(pos, n, b)}

RECURSIVE KnnNodes(_, _, _)
\* every result the self-join can return for the nodes ns
KnnNodes(pos, ns, k) ==
    IF ns = {} THEN {{}}
    ELSE LET n == CHOOSE x \in ns : TRUE
         IN  {rest \cup {[first |-> n, second |-> m, dist |-> STDistance(pos, n, m)] :
                            m \in S} :
                rest \in KnnNodes(pos, ns \ {n}, k), S \in KnnChoices(pos, n, k)}

\* the filter with the threshold itself let through
WithinOrAtMaxDistance(df, max_node_distance) == {r \in df : r.dist <= max_node_distance}

\* nearest_nodes_df.loc[nearest_nodes_df.dist < max_node_distance]
WithinMaxDistance(df, max_node_distance) == {r \in df : r.dist < max_node_distance}

EdgePairs(df) == {<<r.first, r.second>> : r \in df}

GraphNodes(df) == {r.first : r \in df} \cup {r.second : r \in df}

\* a translator that renames a node to the least of itself and its neighbours
TranslatorNearest(df) ==
    [n \in GraphNodes(df) |-> MinOf({n} \cup Neighbours(EdgePairs(df), n))]

\* a translator that takes the last of the sorted nodes of a component
TranslatorLast(df) ==
    [n \in GraphNodes(df) |-> MaxOf(PlainBfs(EdgePairs(df), {n}, {n}))]

\* {n: sorted(g.nodes)[0] for g in subgraphs for n in g.nodes}
Translator(df) ==
    [n \in GraphNodes(df) |-> MinOf(PlainBfs(EdgePairs(df), {n}, {n}))]

GetNearestNodesTranslator(knn, max_node_distance) ==
    Translator(WithinMaxDistance(knn, max_node_distance))

(***************************************************************************)
(* snap_together_nearby_nodes, lines 208-225.                              *)
(***************************************************************************)
\* an id without an entry translated to the one value 0
TranslateOrNone(tr, x) == DictGet(tr, x, 0)

\* translator.get(x, x)
Translate(tr, x) == DictGet(tr, x, x)

\* the renaming applied to the endNode only
SnapRowEndOnly(row, tr) ==
    [roads_id |-> row.roads_id, startNode |-> row.startNode,
     endNode |-> Translate(tr, row.endNode), length |-> row.length,
     number_of_properties |-> row.number_of_properties,
     residential |-> row.residential, short |-> row.short,
     short_or_residential |-> row.short_or_residential]

\* lines 221-222: both node columns of the street table are overwritten
SnapRow(row, tr) ==
    [roads_id |-> row.roads_id, startNode |-> Translate(tr, row.startNode),
     endNode |-> Translate(tr, row.endNode), length |-> row.length,
     number_of_properties |-> row.number_of_properties,
     residential |-> row.residential, short |-> row.short,
     short_or_residential |-> row.short_or_residential]

\* the renaming of the street ends by the translator of a node table
SnapNodes(tables, max_node_distance) ==
    \E pos \in tables :
        \E knn \in KnnNodes(pos, DOMAIN pos, KnnK) :
            /\ nearest_nodes_df' = WithinMaxDistance(knn, max_node_distance)
            /\ translator' = GetNearestNodesTranslator(knn, max_node_distance)
            /\ streets' = [i \in DOMAIN streets |-> SnapRow(streets[i], translator')]

SnapTogetherNearbyNodes ==
    /\ pc = "snap"
    /\ snap_nodes_threshold > 0
    /\ SnapNodes(NodeTables, snap_nodes_threshold)
    /\ pc' = "label"
    /\ UNCHANGED <<db_nodes, geoVars, snap_nodes_threshold, db_roads, db_properties, all_streets,
                   residential_streets, properties, communities_key,
                   community_size_dict>>

\* a threshold that is not positive replaced by a default one
SkipSnappingUsesDefault ==
    /\ pc = "snap"
    /\ ~(snap_nodes_threshold > 0)
    /\ SnapNodes(NodeTables, MaxThreshold)
    /\ pc' = "label"
    /\ UNCHANGED <<db_nodes, geoVars, snap_nodes_threshold, db_roads, db_properties, all_streets,
                   residential_streets, properties, communities_key,
                   community_size_dict>>

\* snapping skipped for the threshold 0 alone
SkipSnappingAtZero ==
    /\ pc = "snap"
    /\ snap_nodes_threshold = 0
    /\ pc' = "label"
    /\ UNCHANGED <<db_nodes, geoVars, snap_nodes_threshold, db_roads, db_properties, all_streets,
                   residential_streets, properties, streets, nearest_nodes_df,
                   translator, communities_key, community_size_dict>>

\* get_communities, line 72: no snapping unless the threshold is positive
SkipSnapping ==
    /\ pc = "snap"
    /\ ~(snap_nodes_threshold > 0)
    /\ pc' = "label"
    /\ UNCHANGED <<db_nodes, geoVars, snap_nodes_threshold, db_roads, db_properties, all_streets,
                   residential_streets, properties, streets, nearest_nodes_df,
                   translator, communities_key, community_size_dict>>

(***************************************************************************)
(* label_connected_communities, lines 253-281.                             *)
(* nx.from_pandas_edgelist(df, "startNode", "endNode", True) builds an     *)
(* nx.Graph: nodes are kept in insertion order, and an edge between two    *)
(* nodes that are already joined takes the attributes of the later row.    *)
(***************************************************************************)
EmptyGraph == [nodes |-> << >>, edges |-> {}]

AddNode(nodes, n) == IF n \in Range(nodes) THEN nodes ELSE Append(nodes, n)

AddEdge(g, u, v, roads_id) ==
    [nodes |-> AddNode(AddNode(g.nodes, u), v),
     edges |-> {e \in g.edges : e.ends # {u, v}}
                 \cup {[ends |-> {u, v}, roads_id |-> roads_id]}]

RECURSIVE AddEdgesFrom(_, _, _)
AddEdgesFrom(g, df, i) ==
    IF i > Len(df) THEN g
    ELSE AddEdgesFrom(AddEdge(g, df[i].startNode, df[i].endNode, df[i].roads_id),
                      df, i + 1)

FromPandasEdgelist(df) == AddEdgesFrom(EmptyGraph, df, 1)

GraphPairs(g) ==
    {<<u, v>> \in Range(g.nodes) \X Range(g.nodes) :
        \E e \in g.edges : e.ends = {u, v}}

RECURSIVE ComponentsFrom(_, _, _)
\* nx.connected_components: for v in G, if v not in seen, yield its component
ComponentsFrom(g, i, seen) ==
    IF i > Len(g.nodes) THEN << >>
    ELSE IF g.nodes[i] \in seen THEN ComponentsFrom(g, i + 1, seen)
         ELSE LET c == PlainBfs(GraphPairs(g), {g.nodes[i]}, {g.nodes[i]})
              IN  <<c>> \o ComponentsFrom(g, i + 1, seen \cup c)

\* components discovered in the order of the node ids, not of insertion
ConnectedComponentsSorted(g) ==
    ComponentsFrom([nodes |-> SortSeq(g.nodes, LAMBDA a, b : a < b),
                    edges |-> g.edges], 1, {})

ConnectedComponents(g) == ComponentsFrom(g, 1, {})

\* nx.get_edge_attributes(graph.subgraph(component), "roads_id").values()
EdgeAttributes(g, component) ==
    {e.roads_id : e \in {x \in g.edges : x.ends \subseteq component}}

\* str(i + 1).zfill(3), for the position i (from 0) of a component
LabelOf(i) == ZFill(Str(i + 1), LabelWidth)

\* {label: street ids} for i, graph in enumerate(subgraphs)
Communities(g, components) ==
    [label \in {LabelOf(i - 1) : i \in DOMAIN components} |->
        EdgeAttributes(g, components[CHOOSE i \in DOMAIN components :
                                        LabelOf(i - 1) = label])]

\* {value: key for key, value_list in communities.items() for value in value_list}
\* (a later key replaces an earlier one)
CommunitiesKey(communities, n) ==
    [street_id \in UNION {communities[l] : l \in DOMAIN communities} |->
        LabelOf(MaxOf({i \in 1..n : street_id \in communities[LabelOf(i - 1)]}) - 1)]

LabelStreets(df, key) ==
    [i \in DOMAIN df |->
        [roads_id |-> df[i].roads_id, startNode |-> df[i].startNode,
         endNode |-> df[i].endNode, length |-> df[i].length,
         number_of_properties |-> df[i].number_of_properties,
         residential |-> df[i].residential, short |-> df[i].short,
         short_or_residential |-> df[i].short_or_residential,
         community |-> DictGet(key, df[i].roads_id, None)]]

\* properties labelled by their own id instead of their nearest street's
LabelPropertiesById(df, key) ==
    [i \in DOMAIN df |->
        [properties_id |-> df[i].properties_id, roads_id |-> df[i].roads_id,
         startNode |-> df[i].startNode, endNode |-> df[i].endNode,
         length |-> df[i].length,
         community |-> DictGet(key, df[i].properties_id, None)]]

LabelProperties(df, key) ==
    [i \in DOMAIN df |->
        [properties_id |-> df[i].properties_id, roads_id |-> df[i].roads_id,
         startNode |-> df[i].startNode, endNode |-> df[i].endNode,
         length |-> df[i].length,
         community |-> DictGet(key, df[i].roads_id, None)]]

LabelConnectedCommunities ==
    /\ pc = "label"
    /\ LET streets_df == SelectSeq(streets, LAMBDA r : r.short_or_residential)
           street_graph == FromPandasEdgelist(streets_df)
           subgraphs == ConnectedComponents(street_graph)
           communities == Communities(street_graph, subgraphs)
       IN  /\ communities_key' = CommunitiesKey(communities, Len(subgraphs))
           /\ streets' = LabelStreets(streets, communities_key')
           /\ properties' = LabelProperties(properties, communities_key')
    /\ pc' = "size"
    /\ UNCHANGED <<db_nodes, geoVars, snap_nodes_threshold, db_roads, db_properties, all_streets, residential_streets,
                   nearest_nodes_df, translator, community_size_dict>>

(***************************************************************************)
(* get_communities, lines 80-88: the size of each community.               *)
(***************************************************************************)
\* dict(streets.community.value_counts()): rows per non-null label
CommunitySizeDict(df) ==
    [label \in {df[i].community : i \in {j \in DOMAIN df : df[j].community # None}} |->
        Cardinality({i \in DOMAIN df : df[i].community = label})]

CommunitySize(df, size_dict) ==
    [i \in DOMAIN df |->
        [roads_id |-> df[i].roads_id, startNode |-> df[i].startNode,
         endNode |-> df[i].endNode, length |-> df[i].length,
         number_of_properties |-> df[i].number_of_properties,
         residential |-> df[i].residential, short |-> df[i].short,
         short_or_residential |-> df[i].short_or_residential,
         community |-> df[i].community,
         community_size |-> DictGet(size_dict, df[i].community, 0)]]

FaceblockCommunitySize(df, size_dict) ==
    [i \in DOMAIN df |->
        [properties_id |-> df[i].properties_id, roads_id |-> df[i].roads_id,
         startNode |-> df[i].startNode, endNode |-> df[i].endNode,
         length |-> df[i].length, community |-> df[i].community,
         faceblock_community_size |-> DictGet(size_dict, df[i].community, 0)]]

CommunitySizes ==
    /\ pc = "size"
    /\ community_size_dict' = CommunitySizeDict(streets)
    /\ streets' = CommunitySize(streets, community_size_dict')
    /\ properties' = FaceblockCommunitySize(properties, community_size_dict')
    /\ pc' = "done"
    /\ UNCHANGED <<db_nodes, geoVars, snap_nodes_threshold, db_roads, db_properties, all_streets, residential_streets,
                   nearest_nodes_df, translator, communities_key>>

Next ==
    \/ GetAllStreets
    \/ GetResidentialStreetsAndProperties
    \/ ConcatStreets
    \/ SnapTogetherNearbyNodes
    \/ SkipSnapping
    \/ LabelConnectedCommunities
    \/ CommunitySizes

Spec == Init /\ [][Next]_vars

(***************************************************************************)
(* Vocabulary of the properties.                                           *)
(***************************************************************************)
Snapped == pc \in {"label", "size", "done"}

Rows == DOMAIN streets

\* the labelled street ids of the output
LabelledIds == {streets[i].roads_id : i \in {j \in Rows : streets[j].community # None}}

\* the community of a labelled street id
CommunityOf(s) ==
    streets[CHOOSE i \in Rows : streets[i].roads_id = s /\ streets[i].community # None]
        .community

\* the street ids whose short_or_residential flag is true
QualifyingIds ==
    {streets[i].roads_id : i \in {j \in Rows : streets[j].short_or_residential}}

\* the (post-snap) endpoint node ids of a street
EndNodes(s) ==
    UNION {{streets[i].startNode, streets[i].endNode} :
              i \in {j \in Rows : streets[j].roads_id = s}}

RECURSIVE ChainClosure(_)
\* the qualifying streets linked to those of S by a chain of qualifying
\* streets in which consecutive streets share an endpoint node
ChainClosure(S) ==
    LET more == S \cup {t \in QualifyingIds :
                           \E s \in S : EndNodes(s) \cap EndNodes(t) # {}}
    IN  IF more = S THEN S ELSE ChainClosure(more)

RECURSIVE LabelNumber(_)
\* the number a label string reads as
LabelNumber(label) ==
    IF label = << >> THEN 0
    ELSE 10 * LabelNumber(SubSeq(label, 1, Len(label) - 1)) + label[Len(label)]

\* the first row of the street table that holds a qualifying street of S
FirstRow(S) ==
    MinOf({i \in Rows : streets[i].short_or_residential /\ streets[i].roads_id \in S})

\* the proximity graph: node pairs of the nearest-neighbour result whose
\* distance is strictly below the snap threshold
ProximityEdges ==
    {<<r.first, r.second>> :
        r \in {x \in nearest_nodes_df : x.dist < snap_nodes_threshold}}

RECURSIVE ProximityClosure(_)
\* the nodes joined to those of S by a path of the proximity graph
ProximityClosure(S) ==
    LET more == S \cup {e[2] : e \in {x \in ProximityEdges : x[1] \in S}}
                  \cup {e[1] : e \in {x \in ProximityEdges : x[2] \in S}}
    IN  IF more = S THEN S ELSE ProximityClosure(more)

(***************************************************************************)
(* C1: after get_communities, every street row whose short_or_residential  *)
(* flag is true has a non-null community, parallel streets and self-loops  *)
(* on the same node included.                                              *)
(***************************************************************************)
C1_QualifyingStreetsAreLabelled ==
    pc = "done" =>
        \A i \in Rows : streets[i].short_or_residential => streets[i].community # None

(***************************************************************************)
(* C2: after get_communities, every row of the street table whose          *)
(* short_or_residential flag is false has a null community.                *)
(***************************************************************************)
C2_ExcludedRowsAreUnlabelled ==
    pc = "done" =>
        \A i \in Rows : ~streets[i].short_or_residential => streets[i].community = None

(***************************************************************************)
(* C3: two labelled streets have the same community label if and only if   *)
(* a chain of short_or_residential streets, consecutive ones sharing a     *)
(* post-snap endpoint node, links them.                                    *)
(***************************************************************************)
C3_CommunitiesAreComponents ==
    pc = "done" =>
        \A s \in LabelledIds, t \in LabelledIds :
            (CommunityOf(s) = CommunityOf(t)) <=> (t \in ChainClosure({s}))

\* two labelled streets with no raw node in common share a label
C3_Witness ==
    /\ pc = "done"
    /\ \E s \in LabelledIds, t \in LabelledIds :
        /\ s # t
        /\ CommunityOf(s) = CommunityOf(t)
        /\ {db_roads[s].startNode, db_roads[s].endNode}
             \cap {db_roads[t].startNode, db_roads[t].endNode} = {}

(***************************************************************************)
(* C4: the community_size of a street row with label L is the number of    *)
(* distinct street ids whose community is L, and 0 for a null community.   *)
(***************************************************************************)
C4_SizeCountsStreets ==
    pc = "done" =>
        \A i \in Rows :
            streets[i].community_size =
                IF streets[i].community = None THEN 0
                ELSE Cardinality({s \in LabelledIds :
                                     CommunityOf(s) = streets[i].community})

(***************************************************************************)
(* C5: every output property has the community of its nearest street       *)
(* (null when the street has none) and a faceblock_community_size equal to *)
(* the community_size of the streets carrying that label (0 when null).    *)
(***************************************************************************)
C5_PropertiesInherit ==
    pc = "done" =>
        \A p \in DOMAIN properties :
            /\ \A i \in Rows :
                  streets[i].roads_id = properties[p].roads_id
                      => properties[p].community = streets[i].community
            /\ \A i \in Rows :
                  streets[i].community = properties[p].community
                      => properties[p].faceblock_community_size
                            = streets[i].community_size
            /\ properties[p].community = None
                  => properties[p].faceblock_community_size = 0

\* a property on a labelled street and a property on an unlabelled one
C5_Witness ==
    /\ pc = "done"
    /\ \E p \in DOMAIN properties, q \in DOMAIN properties :
        /\ properties[p].community # None
        /\ properties[p].faceblock_community_size > 0
        /\ properties[q].community = None

(***************************************************************************)
(* C7 as claimed: labels follow the minimum street id of the components:   *)
(* the component with the smaller minimum street id has the smaller label  *)
(* number, whatever the row order.                                         *)
(***************************************************************************)
C7_LabelsFollowMinimumStreetId ==
    pc = "done" =>
        \A s \in LabelledIds, t \in LabelledIds :
            MinOf(ChainClosure({s})) < MinOf(ChainClosure({t}))
                => LabelNumber(CommunityOf(s)) < LabelNumber(CommunityOf(t))

(***************************************************************************)
(* C7 as amended: labels follow the row order of the street table: of two  *)
(* components, the one whose first qualifying row comes first has the      *)
(* smaller label number.                                                   *)
(***************************************************************************)
C7_LabelsFollowRowOrder ==
    pc = "done" =>
        \A s \in LabelledIds, t \in LabelledIds :
            (FirstRow(ChainClosure({s})) < FirstRow(ChainClosure({t})))
                <=> (LabelNumber(CommunityOf(s)) < LabelNumber(CommunityOf(t)))

\* the component with the larger minimum street id is labelled first
C7_Witness ==
    /\ pc = "done"
    /\ \E s \in LabelledIds, t \in LabelledIds :
        /\ MinOf(ChainClosure({s})) < MinOf(ChainClosure({t}))
        /\ LabelNumber(CommunityOf(t)) < LabelNumber(CommunityOf(s))

(***************************************************************************)
(* C8: snapping is idempotent: translating a translated node id gives the  *)
(* same id, so snapping the snapped street table again changes no          *)
(* startNode or endNode.                                                   *)
(***************************************************************************)
C8_SnappingIsIdempotent ==
    Snapped =>
        /\ \A x \in NodeIds :
              Translate(translator, Translate(translator, x)) = Translate(translator, x)
        /\ \A i \in Rows :
              /\ Translate(translator, streets[i].startNode) = streets[i].startNode
              /\ Translate(translator, streets[i].endNode) = streets[i].endNode

\* a street end was renamed by a translator that joins three nodes
C8_Witness ==
    /\ pc = "label"
    /\ \E x \in DOMAIN translator, y \in DOMAIN translator :
        /\ x # y /\ translator[x] = translator[y]
        /\ translator[x] # x /\ translator[y] # y
    /\ \E i \in Rows : streets[i].startNode # db_roads[streets[i].roads_id].startNode

(***************************************************************************)
(* C9: the canonical id of every node of the translator is the minimum     *)
(* node id of its connected component in the proximity graph, and all the  *)
(* members of a component map to that id.                                  *)
(***************************************************************************)
C9_CanonicalIsComponentMinimum ==
    Snapped =>
        \A n \in DOMAIN translator :
            /\ translator[n] = MinOf(ProximityClosure({n}))
            /\ \A m \in ProximityClosure({n}) :
                  m \in DOMAIN translator /\ translator[m] = translator[n]

\* a component whose minimum is not a neighbour of one of its members
C9_Witness ==
    /\ Snapped
    /\ \E n \in DOMAIN translator :
        /\ translator[n] # n
        /\ <<n, translator[n]>> \notin ProximityEdges
        /\ <<translator[n], n>> \notin ProximityEdges

(***************************************************************************)
(* C10: two distinct node ids with the same canonical id are joined by a   *)
(* path of the proximity graph, made of node pairs whose distance is       *)
(* strictly below the snap threshold.                                      *)
(***************************************************************************)
C10_SameCanonicalImpliesPath ==
    Snapped =>
        \A a \in NodeIds, b \in NodeIds :
            (a # b /\ Translate(translator, a) = Translate(translator, b))
                => b \in ProximityClosure({a})

\* two nodes farther apart than the threshold share a canonical id
C10_Witness ==
    /\ Snapped
    /\ \E a \in NodeIds, b \in NodeIds :
        /\ a # b
        /\ Translate(translator, a) = Translate(translator, b)
        /\ <<a, b>> \notin ProximityEdges
        /\ <<b, a>> \notin ProximityEdges

\* the raw startNode and endNode of a street row, as the feature tables give them
RawStart(i) == db_roads[streets[i].roads_id].startNode

RawEnd(i) == db_roads[streets[i].roads_id].endNode

\* C11: with a snap threshold of 0 or less snapping is the identity: the
\* startNode and endNode of every street row used for the community
\* labelling (and kept afterwards) are the raw input node ids, whatever the
\* node positions are
C11_NoSnappingKeepsRawNodes ==
    (snap_nodes_threshold <= 0 /\ Snapped) =>
        /\ translator = << >>
        /\ \A i \in Rows :
            /\ streets[i].startNode = RawStart(i)
            /\ streets[i].endNode = RawEnd(i)

\* a run without snapping that labelled a street
C11_Witness ==
    /\ snap_nodes_threshold <= 0
    /\ pc = "done"
    /\ LabelledIds # {}

\* the properties counted for a street: those inside a building whose
\* nearest street it is
CountedProperties(s) ==
    {i \in DOMAIN db_properties :
        db_properties[i].roads_id = s /\ db_properties[i].dist = 0}

\* the rows of the street table for a street id
RowsOf(s) == {i \in Rows : streets[i].roads_id = s}

\* C13: a street with zero properties is never marked residential whatever
\* its length, yet it receives a non-null community when its length is
\* below short_threshold
C13_ZeroPropertyStreets ==
    pc = "done" =>
        \A s \in RoadIds :
            CountedProperties(s) = {} =>
                /\ \A i \in RowsOf(s) : streets[i].residential # <<TRUE>>
                /\ db_roads[s].length < short_threshold => s \in LabelledIds

\* the ids of the properties of the output table
OutputPropertyIds == {properties[j].properties_id : j \in DOMAIN properties}

\* C14 (as stated): no input row is dropped: every road of the polygon is in
\* the output streets table and every property of the polygon, inside a
\* building or not, is in the output properties table
C14_NoRowIsDropped ==
    pc = "done" =>
        /\ \A s \in RoadIds : RowsOf(s) # {}
        /\ \A p \in DOMAIN db_properties : p \in OutputPropertyIds

\* C14 (amended): every road of the polygon is in the output streets table,
\* with a real or null community; a property is in the output properties
\* table exactly when it lies inside a building (distance 0), the others
\* are left out
C14_OnlyPropertiesInBuildingsAreKept ==
    pc = "done" =>
        /\ \A s \in RoadIds : RowsOf(s) # {}
        /\ \A p \in DOMAIN db_properties :
            p \in OutputPropertyIds <=> db_properties[p].dist = 0

\* a finished run with a property inside a building and one outside
C14_Witness ==
    /\ pc = "done"
    /\ \E p \in DOMAIN db_properties, q \in DOMAIN db_properties :
        /\ db_properties[p].dist = 0
        /\ db_properties[q].dist # 0
        /\ p \in OutputPropertyIds
        /\ q \notin OutputPropertyIds
    /\ \E s \in RoadIds : \A i \in RowsOf(s) : streets[i].community = None

\* all the properties whose nearest street is s, inside a building or not
NearestProperties(s) == {i \in DOMAIN db_properties : db_properties[i].roads_id = s}

\* the rows of the street table that carry a property count
CountedRows == {i \in Rows : streets[i].number_of_properties # NaN}

\* length / n strictly below the residential street threshold, for n
\* properties (a division by zero gives infinity, which is not below)
BelowResidentialThreshold(i, n) ==
    n > 0 /\ streets[i].length < residential_street_threshold * n

\* C15 (as stated): a street's number_of_properties is the count of all
\* the properties whose nearest street is that street, and the street is
\* residential iff length / number_of_properties is strictly below
\* residential_street_threshold
C15_CountsAllNearestProperties ==
    pc = "done" =>
        \A i \in CountedRows :
            LET n == Cardinality(NearestProperties(streets[i].roads_id))
            IN  /\ streets[i].number_of_properties = <<n>>
                /\ streets[i].residential = <<BelowResidentialThreshold(i, n)>>

\* C15 (amended): a street's number_of_properties is the count of the
\* properties inside a building whose nearest street is that street, and
\* the street is residential iff that count is positive and length / count
\* is strictly below residential_street_threshold
C15_CountsPropertiesInBuildings ==
    pc = "done" =>
        \A i \in CountedRows :
            LET n == Cardinality(CountedProperties(streets[i].roads_id))
            IN  /\ streets[i].number_of_properties = <<n>>
                /\ streets[i].residential = <<BelowResidentialThreshold(i, n)>>

\* a street of length 40 with two nearest properties, one of them inside a
\* building: not residential with the count 1, residential with the count 2
C15_Witness ==
    /\ pc = "done"
    /\ \E i \in CountedRows :
        /\ Cardinality(NearestProperties(streets[i].roads_id)) = 2
        /\ streets[i].number_of_properties = <<1>>
        /\ streets[i].residential = <<FALSE>>
        /\ BelowResidentialThreshold(i, 2)

\* C17 (as stated): a negative snap distance threshold is rejected: the run
\* is aborted and never produces the street and property tables
C17_NegativeThresholdIsRejected ==
    snap_nodes_threshold < 0 => pc # "done"

\* C17 (amended): a negative snap distance threshold is not rejected: the
\* run is not stopped where the threshold is first read, snapping is
\* skipped as with the threshold 0, and the run ends with the street and
\* property tables
C17_NegativeThresholdSkipsSnapping ==
    snap_nodes_threshold < 0 =>
        /\ pc = "snap" => ENABLED SkipSnapping
        /\ Snapped => translator = << >> /\ nearest_nodes_df = {}
        /\ pc = "done" => \A s \in RoadIds : RowsOf(s) # {}

\* a finished run with a negative threshold that returns labelled streets
\* and properties
C17_Witness ==
    /\ snap_nodes_threshold < 0
    /\ pc = "done"
    /\ properties # << >>
    /\ \E i \in Rows : streets[i].community_size > 0

\* C20 (as stated): snapping and labelling leave the raw columns unchanged:
\* in the returned streets table the startNode and endNode of each street
\* are still its raw pre-snap node ids
C20_StreetNodesStayRaw ==
    pc = "done" =>
        \A i \in Rows :
            /\ streets[i].startNode = RawStart(i)
            /\ streets[i].endNode = RawEnd(i)

\* C20 (amended): in the returned streets table the startNode and endNode
\* of each street are the canonical ids its raw node ids are translated to
\* (the raw id itself where the translator has no entry); the raw ids are
\* kept in the returned properties table only
C20_StreetNodesAreCanonical ==
    pc = "done" =>
        /\ \A i \in Rows :
            /\ streets[i].startNode = Translate(translator, RawStart(i))
            /\ streets[i].endNode = Translate(translator, RawEnd(i))
        /\ \A j \in DOMAIN properties :
            /\ properties[j].startNode = db_roads[properties[j].roads_id].startNode
            /\ properties[j].endNode = db_roads[properties[j].roads_id].endNode

\* a returned street whose startNode is no longer its raw node id, with a
\* property that still carries the raw one
C20_Witness ==
    /\ pc = "done"
    /\ \E i \in Rows, j \in DOMAIN properties :
        /\ properties[j].roads_id = streets[i].roads_id
        /\ streets[i].startNode # RawStart(i)
        /\ properties[j].startNode = RawStart(i)

(***************************************************************************)
(* The scenario of two streets end to end: street 1 runs from node 1 to    *)
(* node 2 and street 2 from node 3 to node 4, on one line; nodes 2 and 3   *)
(* lie closer together than the snap threshold, and each street is at      *)
(* least as long as the threshold (0.2 against 10 for a threshold of 1).   *)
(***************************************************************************)
ScenarioRoadTables ==
    {<<[startNode |-> 1, endNode |-> 2, length |-> la],
       [startNode |-> 3, endNode |-> 4, length |-> lb]>> :
        la \in Lengths, lb \in Lengths}

\* the node positions for a threshold: a gap below it between nodes 2 and
\* 3, street extents not below it
ScenarioNodeTables(threshold) ==
    {<<0, d1, d1 + gap, d1 + gap + d2>> :
        gap \in 0..(threshold - 1),
        d1 \in threshold..(threshold + 1),
        d2 \in threshold..(threshold + 1)}

ScenarioInit ==
    /\ GeoIdle
    /\ db_nodes = << >>
    /\ pc = "start"
    /\ snap_nodes_threshold \in Thresholds
    /\ db_roads \in ScenarioRoadTables
    /\ db_properties = << >>
    /\ all_streets = << >>
    /\ residential_streets = << >>
    /\ properties = << >>
    /\ streets = << >>
    /\ nearest_nodes_df = {}
    /\ translator = << >>
    /\ communities_key = << >>
    /\ community_size_dict = << >>

ScenarioSnapTogetherNearbyNodes ==
    /\ pc = "snap"
    /\ snap_nodes_threshold > 0
    /\ SnapNodes(ScenarioNodeTables(snap_nodes_threshold), snap_nodes_threshold)
    /\ pc' = "label"
    /\ UNCHANGED <<db_nodes, geoVars, snap_nodes_threshold, db_roads, db_properties, all_streets,
                   residential_streets, properties, communities_key,
                   community_size_dict>>

ScenarioNext ==
    \/ GetAllStreets
    \/ GetResidentialStreetsAndProperties
    \/ ConcatStreets
    \/ ScenarioSnapTogetherNearbyNodes
    \/ SkipSnapping
    \/ LabelConnectedCommunities
    \/ CommunitySizes

SpecScenario == ScenarioInit /\ [][ScenarioNext]_vars

\* C12: two qualifying streets that share no raw node id but have one
\* endpoint each closer together than the snap threshold end up with the
\* same community label; the same input with a snap threshold of 0 (or
\* less) gives them two different community labels
C12_NearbyEndpointsJoinCommunities ==
    (pc = "done" /\ {1, 2} \subseteq QualifyingIds) =>
        /\ {1, 2} \subseteq LabelledIds
        /\ snap_nodes_threshold > 0 => CommunityOf(1) = CommunityOf(2)
        /\ snap_nodes_threshold <= 0 => CommunityOf(1) # CommunityOf(2)

\* the two streets in one community, joined at the node that nodes 2 and 3
\* were snapped to
C12_Witness ==
    /\ pc = "done"
    /\ snap_nodes_threshold > 0
    /\ {db_roads[1].startNode, db_roads[1].endNode}
           \cap {db_roads[2].startNode, db_roads[2].endNode} = {}
    /\ {1, 2} \subseteq LabelledIds
    /\ CommunityOf(1) = CommunityOf(2)
    /\ EndNodes(1) \cap EndNodes(2) # {}

(***************************************************************************)
(* geography.get_communities, lines 20-107: the variant with a             *)
(* min_community_size parameter.  The whole function is one step.          *)
(***************************************************************************)
MaxBuilding == 2
MaxMinSize == 2

footprint_threshold == 250
res_length_threshold == 50
geography_short_threshold == 50
NnK == 10
GeoLabelWidth == 2

BuildingIds == 1..MaxBuilding

\* the footprint area of a building: 200 for building 1, 400 for building 2
\* (below the footprint threshold only when shared by two properties)
FootprintArea(buildings_id) == 200 * buildings_id

\* a street that is short, and one that is residential only with two or
\* more properties
GeoLengths == {40, 60}

GeoRoadTables == [RoadIds -> [startNode : NodeIds, endNode : NodeIds, length : GeoLengths]]

\* the two nearest-neighbour results of the properties, row by row: the
\* nearest building of the property with its distance, and its nearest road
GeoPropertyTables ==
    UNION {[1..k -> [buildings_id : BuildingIds, dist : BuildingDists,
                     roads_id : RoadIds]] : k \in 0..MaxProp}

GeoInit ==
    /\ db_nodes = << >>
    /\ pc = "geo_start"
    /\ db_roads \in GeoRoadTables
    /\ node_distance \in Thresholds
    /\ min_community_size \in 0..MaxMinSize
    /\ merged_df = << >>
    /\ geo_subgraphs = << >>
    /\ sgs = << >>
    /\ translator = << >>
    /\ communities_key = << >>
    /\ total_df = << >>
    /\ face_block = None
    /\ snap_nodes_threshold = 0
    /\ db_properties = << >>
    /\ all_streets = << >>
    /\ residential_streets = << >>
    /\ properties = << >>
    /\ streets = << >>
    /\ nearest_nodes_df = {}
    /\ community_size_dict = << >>

\* lines 31-46: the properties inside a building whose footprint area per
\* property is below the threshold
ResidentialBuildingProperties(knn) ==
    LET df == SelectSeq([i \in DOMAIN knn |->
                            [properties_id |-> i,
                             buildings_id |-> knn[i].buildings_id,
                             dist |-> knn[i].dist]],
                        LAMBDA r : r.dist = 0)
        building_counts == ValueCounts([i \in DOMAIN df |-> df[i].buildings_id])
    IN  SelectSeq(df, LAMBDA r :
            FootprintArea(r.buildings_id)
                < footprint_threshold * DictGet(building_counts, r.buildings_id, 0))

\* lines 52-71: the properties with their nearest road, restricted to the
\* roads that are residential or short (the filter of line 55 is not
\* assigned: every property counts)
ResOrShort(roads, knn) ==
    LET df2 == [i \in DOMAIN knn |->
                   [properties_id |-> i, roads_id |-> knn[i].roads_id,
                    startNode |-> roads[knn[i].roads_id].startNode,
                    endNode |-> roads[knn[i].roads_id].endNode,
                    length |-> roads[knn[i].roads_id].length]]
        street_counts == ValueCounts([i \in DOMAIN df2 |-> df2[i].roads_id])
    IN  SelectSeq(df2, LAMBDA r :
            \/ r.length < res_length_threshold * DictGet(street_counts, r.roads_id, 0)
            \/ r.length < geography_short_threshold)

\* nn_translator, lines 146-158
NnTranslator(knn, max_distance) == Translator(WithinMaxDistance(knn, max_distance))

\* every translator the node positions can give
NnTranslators(max_distance) ==
    {NnTranslator(knn, max_distance) :
        knn \in UNION {KnnNodes(pos, DOMAIN pos, NnK) : pos \in NodeTables}}

\* lines 78-82: the edge list with the translated nodes
TranslatedEdges(df3, tr) ==
    [i \in DOMAIN df3 |->
        [roads_id |-> df3[i].roads_id,
         startNode |-> Translate(tr, df3[i].startNode),
         endNode |-> Translate(tr, df3[i].endNode)]]

\* line 88: [g.subgraph(c) for c in nx.connected_components(g)]
Subgraphs(g) ==
    LET components == ConnectedComponents(g)
    IN  [i \in DOMAIN components |->
            [nodes |-> components[i],
             edges |-> {e \in g.edges : e.ends \subseteq components[i]}]]

\* line 89: len(sg) > min_community_size, len of a graph being its number
\* of nodes
LargeEnough(sg, min_size) == Cardinality(sg.nodes) > min_size

\* str(i + 1).zfill(2), for the position i (from 0) of a subgraph
GeoLabelOf(i) == ZFill(Str(i + 1), GeoLabelWidth)

\* lines 93-100: {roads_id: label}, a later label replacing an earlier one
GeoCommunitiesKey(graphs) ==
    [street_id \in UNION {{e.roads_id : e \in graphs[i].edges} : i \in DOMAIN graphs} |->
        GeoLabelOf(MaxOf({i \in DOMAIN graphs :
                            \E e \in graphs[i].edges : e.roads_id = street_id}) - 1)]

\* lines 101-105: the community column, and the inner merge with the
\* properties in residential buildings
MergedDf(df3, df1, key) ==
    LET kept == SelectSeq(df3, LAMBDA r :
                    \E j \in DOMAIN df1 : df1[j].properties_id = r.properties_id)
    IN  [i \in DOMAIN kept |->
            [properties_id |-> kept[i].properties_id,
             roads_id |-> kept[i].roads_id,
             startNode |-> kept[i].startNode, endNode |-> kept[i].endNode,
             length |-> kept[i].length,
             community |-> DictGet(key, kept[i].roads_id, None),
             buildings_id |->
                df1[CHOOSE j \in DOMAIN df1 :
                        df1[j].properties_id = kept[i].properties_id].buildings_id]]

GeoGetCommunities ==
    /\ pc = "geo_start"
    /\ LET translators == NnTranslators(node_distance)
       IN  \E knn \in GeoPropertyTables, tr \in translators :
            LET df1 == ResidentialBuildingProperties(knn)
                df3 == ResOrShort(db_roads, knn)
                g == FromPandasEdgelist(TranslatedEdges(df3, tr))
                all == Subgraphs(g)
                large == SelectSeq(all, LAMBDA sg : LargeEnough(sg, min_community_size))
                key == GeoCommunitiesKey(large)
            IN  /\ translator' = tr
                /\ geo_subgraphs' = all
                /\ sgs' = large
                /\ communities_key' = key
                /\ merged_df' = MergedDf(df3, df1, key)
    /\ pc' = "geo_done"
    /\ UNCHANGED <<db_roads, node_distance, min_community_size, total_df,
                   face_block, snap_nodes_threshold, db_properties, all_streets,
                   residential_streets, properties, streets, nearest_nodes_df,
                   community_size_dict, db_nodes>>

GeoNext == GeoGetCommunities

GeoSpec == GeoInit /\ [][GeoNext]_vars

\* C16: in the variant with a min_community_size parameter a connected
\* component is kept and labelled as a community if and only if it
\* contains at least min_community_size street edges; with the default
\* value 1 no component is filtered out
C16_KeptIffEnoughEdges ==
    pc = "geo_done" =>
        /\ \A i \in DOMAIN geo_subgraphs :
            (\E j \in DOMAIN sgs : sgs[j] = geo_subgraphs[i])
                <=> Cardinality(geo_subgraphs[i].edges) >= min_community_size
        /\ min_community_size = 1 => sgs = geo_subgraphs

(***************************************************************************)
(* geography.FaceBlock, lines 347-413.  The df argument is a merged table  *)
(* as get_communities returns it: one row per property, with the id and    *)
(* the startNode and endNode of its nearest road.                          *)
(***************************************************************************)
FaceBlockRoadTables == [RoadIds -> [startNode : NodeIds, endNode : NodeIds]]

\* the merged table of the properties whose nearest roads are ids[1], ids[2], ...
FaceBlockRows(roads, ids) ==
    [i \in DOMAIN ids |->
        [properties_id |-> i, roads_id |-> ids[i],
         startNode |-> roads[ids[i]].startNode,
         endNode |-> roads[ids[i]].endNode]]

FaceBlockTables ==
    {FaceBlockRows(roads, ids) :
        roads \in FaceBlockRoadTables,
        ids \in UNION {[1..k -> RoadIds] : k \in 0..(MaxProp + 1)}}

FaceBlockSpecInit ==
    /\ db_nodes = << >>
    /\ pc = "fb_start"
    /\ total_df \in FaceBlockTables
    /\ face_block = None
    /\ db_roads = << >>
    /\ node_distance = 0
    /\ min_community_size = 0
    /\ merged_df = << >>
    /\ geo_subgraphs = << >>
    /\ sgs = << >>
    /\ translator = << >>
    /\ communities_key = << >>
    /\ snap_nodes_threshold = 0
    /\ db_properties = << >>
    /\ all_streets = << >>
    /\ residential_streets = << >>
    /\ properties = << >>
    /\ streets = << >>
    /\ nearest_nodes_df = {}
    /\ community_size_dict = << >>

RECURSIVE Unique(_)
\* Series.unique(): the values in their order of first appearance
Unique(column) ==
    IF column = << >> THEN << >>
    ELSE LET front == Unique(SubSeq(column, 1, Len(column) - 1))
             last == column[Len(column)]
         IN  IF last \in Range(front) THEN front ELSE Append(front, last)

RoadsIdColumn(df) == [i \in DOMAIN df |-> df[i].roads_id]

\* the table passed on whole
FaceBlockDfAll(df, roads_id) == df

\* line 355: total_df.loc[total_df.roads_id == roads_id]
FaceBlockDf(df, roads_id) == SelectSeq(df, LAMBDA r : r.roads_id = roads_id)

\* line 362: df[~df.roads_id.duplicated()]
FaceBlockRoadsDf(df) ==
    SelectSeq(df, LAMBDA r :
        \A j \in DOMAIN df :
            df[j].roads_id = r.roads_id => df[j].properties_id >= r.properties_id)

\* line 365: assert len(roads_df.roads_id.unique() == 1): the length of the
\* elementwise comparison, that is the number of unique ids, is not zero
AssertUnique(roads_df) == Len(Unique(RoadsIdColumn(roads_df))) # 0

\* lines 372-379: the unique ids of the other streets that start at the
\* node, followed by the unique ids of the other streets that end at it
NeighboursAt(df, node, id) ==
    Unique(RoadsIdColumn(SelectSeq(df, LAMBDA r : r.startNode = node /\ r.roads_id # id)))
    \o Unique(RoadsIdColumn(SelectSeq(df, LAMBDA r : r.endNode = node /\ r.roads_id # id)))

\* lines 399-405 of FaceBlock.stats
FaceBlockCount(fb) ==
    [properties |-> Len(fb.properties),
     neighbouring_face_blocks |-> Len(fb.neighbours.start) + Len(fb.neighbours.end)]

\* FaceBlock(df, roads_id, db, get_stats)
FaceBlockInit ==
    /\ pc = "fb_start"
    /\ \E roads_id \in RoadIds, get_stats \in BOOLEAN :
        LET df == FaceBlockDf(total_df, roads_id)
            roads_df == FaceBlockRoadsDf(df)
            attributes ==
                [id |-> roads_id, df |-> df,
                 properties |-> Unique([i \in DOMAIN df |-> df[i].properties_id]),
                 roads_df |-> roads_df]
        IN  IF AssertUnique(roads_df)
            THEN LET fb == [id |-> roads_id, df |-> df,
                            properties |-> attributes.properties,
                            roads_df |-> roads_df,
                            startNode |-> roads_df[1].startNode,
                            endNode |-> roads_df[1].endNode,
                            neighbours |->
                                [start |-> NeighboursAt(total_df, roads_df[1].startNode,
                                                        roads_id),
                                 end |-> NeighboursAt(total_df, roads_df[1].endNode,
                                                      roads_id)],
                            count |-> None]
                 IN  /\ face_block' = IF get_stats
                                      THEN [fb EXCEPT !.count = FaceBlockCount(fb)]
                                      ELSE fb
                     /\ pc' = "fb_ok"
            ELSE /\ face_block' = attributes
                 /\ pc' = "fb_error"
    /\ UNCHANGED <<total_df, db_roads, node_distance, min_community_size,
                   merged_df, geo_subgraphs, sgs, translator, communities_key,
                   snap_nodes_threshold, db_properties, all_streets,
                   residential_streets, properties, streets, nearest_nodes_df,
                   community_size_dict, db_nodes>>

\* FaceBlock.stats() called on a constructed face block
FaceBlockStats ==
    /\ pc = "fb_ok"
    /\ face_block.count = None
    /\ face_block' = [face_block EXCEPT !.count = FaceBlockCount(face_block)]
    /\ UNCHANGED <<pc, total_df, db_roads, node_distance, min_community_size,
                   merged_df, geo_subgraphs, sgs, translator, communities_key,
                   snap_nodes_threshold, db_properties, all_streets,
                   residential_streets, properties, streets, nearest_nodes_df,
                   community_size_dict, db_nodes>>

FaceBlockNext ==
    \/ FaceBlockInit
    \/ FaceBlockStats

FaceBlockSpec == FaceBlockSpecInit /\ [][FaceBlockNext]_vars

\* the rows of the table passed to the face block that carry its street id
MatchingRows == {i \in DOMAIN total_df : total_df[i].roads_id = face_block.id}

\* C18: constructing a FaceBlock for a street id succeeds only when exactly
\* one street row matches that id in the de-duplicated roads slice; when
\* no row matches (more than one cannot be left by the de-duplication)
\* construction fails with an error before any neighbour or statistic is
\* computed
C18_FaceBlockNeedsItsStreetRow ==
    /\ pc = "fb_ok" =>
        /\ Len(face_block.roads_df) = 1
        /\ face_block.roads_df[1].roads_id = face_block.id
        /\ MatchingRows # {}
    /\ pc = "fb_error" =>
        /\ Len(face_block.roads_df) # 1
        /\ MatchingRows = {}
        /\ DOMAIN face_block \cap {"neighbours", "count"} = {}

\* a construction that failed for an id absent from a table that is not empty
C18_Witness ==
    /\ pc = "fb_error"
    /\ total_df # << >>
    /\ MatchingRows = {}

\* C19: FaceBlock.neighbours['start'] lists exactly the ids of the streets
\* other than the target whose startNode or endNode equals the target's
\* startNode, each id once and never the target's own id;
\* neighbours['end'] is the same with the target's endNode
C19_NeighboursListedOnce ==
    pc = "fb_ok" =>
        LET touching(node) ==
                {total_df[i].roads_id :
                    i \in {j \in DOMAIN total_df :
                            /\ total_df[j].roads_id # face_block.id
                            /\ node \in {total_df[j].startNode, total_df[j].endNode}}}
            once(list) == \A i \in DOMAIN list, j \in DOMAIN list :
                            list[i] = list[j] => i = j
        IN  /\ Range(face_block.neighbours.start) = touching(face_block.startNode)
            /\ once(face_block.neighbours.start)
            /\ Range(face_block.neighbours.end) = touching(face_block.endNode)
            /\ once(face_block.neighbours.end)

\* C22: each street id appears in exactly one row of the streets table
\* returned by get_communities, also for a street that is returned both by
\* the all-roads query and as the nearest road of some property
C22_OneRowPerStreet ==
    pc = "done" => \A s \in RoadIds : Cardinality(RowsOf(s)) = 1

(***************************************************************************)
(* get_nearest_nodes_translator, lines 228-250, run on its own on a nodes  *)
(* table with more nodes than the k of the nearest-neighbour query: the    *)
(* nodes lie on a line in two groups, one unit apart inside a group, the   *)
(* groups separated by a gap.                                              *)
(***************************************************************************)
\* twice the k nearest nodes and the node itself
ClusterNodeIds == 1..(2 * (KnnK + 1))

ClusterGaps == 1..(KnnK + 1)

ClusterThresholds == 1..(KnnK + 2)

\* the positions of a first group of `size` nodes and of the others
ClusterNodeTable(size, gap) ==
    [n \in ClusterNodeIds |->
        IF n <= size THEN n - 1 ELSE (size - 1) + gap + (n - size - 1)]

ClusterNodeTables ==
    {ClusterNodeTable(size, gap) :
        size \in 1..(Cardinality(ClusterNodeIds) - 1), gap \in ClusterGaps}

ClusterInit ==
    /\ GeoIdle
    /\ pc = "nodes_start"
    /\ db_nodes \in ClusterNodeTables
    /\ snap_nodes_threshold \in ClusterThresholds
    /\ db_roads = << >>
    /\ db_properties = << >>
    /\ all_streets = << >>
    /\ residential_streets = << >>
    /\ properties = << >>
    /\ streets = << >>
    /\ nearest_nodes_df = {}
    /\ translator = << >>
    /\ communities_key = << >>
    /\ community_size_dict = << >>

\* get_nearest_nodes_translator(db, polygon, max_node_distance)
GetNearestNodesTranslatorCall ==
    /\ pc = "nodes_start"
    /\ \E knn \in KnnNodes(db_nodes, DOMAIN db_nodes, KnnK) :
        /\ nearest_nodes_df' = WithinMaxDistance(knn, snap_nodes_threshold)
        /\ translator' = GetNearestNodesTranslator(knn, snap_nodes_threshold)
    /\ pc' = "nodes_done"
    /\ UNCHANGED <<db_nodes, geoVars, snap_nodes_threshold, db_roads,
                   db_properties, all_streets, residential_streets, properties,
                   streets, communities_key, community_size_dict>>

ClusterNext == GetNearestNodesTranslatorCall

ClusterSpec == ClusterInit /\ [][ClusterNext]_vars

\* C21: any two nodes whose distance is strictly below the snap threshold
\* receive the same canonical id, for every arrangement of the nodes,
\* including clusters with more nodes within the threshold than the k of
\* the nearest-neighbour query
C21_NearbyNodesShareCanonicalId ==
    pc = "nodes_done" =>
        \A a \in DOMAIN db_nodes, b \in DOMAIN db_nodes :
            STDistance(db_nodes, a, b) < snap_nodes_threshold =>
                Translate(translator, a) = Translate(translator, b)
====
